---- MODULE Spec2Model ----
(***************************************************************************)
(* Model of rota-app-free.py: the pipeline that builds the matrix of road  *)
(* distances between the waypoints, solves the closed-tour TSP, stitches   *)
(* the per-leg shortest paths into one node sequence and recomputes the    *)
(* travelled distance.                                                     *)
(*                                                                         *)
(* Edge lengths are metres in fixed point: a length x stands for x/Scale   *)
(* metres, so int() of line 32 is the integer division by Scale.           *)
(* Python indices are kept: waypoint indices and matrix cells are 0-based; *)
(* Python lists are TLA+ sequences (1-based positions).                    *)
(***************************************************************************)
EXTENDS Integers, Sequences, FiniteSets

\* ---------------------------------------------------------------- bounds
MaxN == 3          \* largest number of waypoints (len(enderecos))
Scale == 2         \* fixed-point resolution: length units per metre

\* ------------------------------------------------------------- utilities
Range(s) == {s[k] : k \in 1..Len(s)}
Last(s) == s[Len(s)]
Min(S) == CHOOSE x \in S : \A y \in S : x <= y
Max(S) == CHOOSE x \in S : \A y \in S : x >= y

\* Python's None and a present value.
None == <<>>
Some(x) == <<x>>

\* --------------------------------------------------- the road graph (G)
\* An edge of the MultiDiGraph is <<u, v, key, length>>.
\* Roads: one-way streets, a pair of parallel edges, fractional lengths
\* and two tied shortest paths from 1 to 3 (direct, and through 2).
Roads ==
    { <<1, 2, 0, 2>>, <<1, 2, 1, 4>>, <<2, 1, 0, 6>>,
      <<2, 3, 0, 3>>, <<3, 2, 0, 3>>,
      <<1, 3, 0, 5>>, <<3, 1, 0, 4>>, <<3, 1, 1, 9>>,
      <<3, 4, 0, 1>>, <<4, 1, 0, 2>> }

\* Grid: every length a whole number of metres, two-way streets and a
\* pair of parallel edges.
Grid ==
    { <<1, 2, 0, 2 * Scale>>, <<2, 1, 0, 2 * Scale>>,
      <<2, 3, 0, 1 * Scale>>, <<3, 2, 0, 3 * Scale>>,
      <<3, 4, 0, 2 * Scale>>, <<4, 3, 0, 2 * Scale>>,
      <<4, 1, 0, 1 * Scale>>, <<4, 1, 1, 4 * Scale>>,
      <<1, 3, 0, 3 * Scale>> }

\* A base network, or a base network with one edge removed (a detour, or
\* a part of the network cut off).
Graphs ==
    {Roads, Grid} \cup {Roads \ {e} : e \in Roads} \cup {Grid \ {e} : e \in Grid}

Nodes == {e[1] : e \in Roads \cup Grid} \cup {e[2] : e \in Roads \cup Grid}

\* ------------------------------------------------ networkx on the graph
\* Weight of the step u -> v in a multigraph: the least 'length' among the
\* parallel edges (networkx _weight_function, weight='length').
HasEdge(g, u, v) == \E e \in g : e[1] = u /\ e[2] = v
Weight(g, u, v) == Min({e[4] : e \in {d \in g : d[1] = u /\ d[2] = v}})

RECURSIVE PathsFrom(_, _, _)
\* The simple paths of g that extend p and end at b.
PathsFrom(g, p, b) ==
    IF Last(p) = b THEN {p}
    ELSE UNION { PathsFrom(g, Append(p, v), b) :
                 v \in {w \in Nodes : w \notin Range(p) /\ HasEdge(g, Last(p), w)} }

RECURSIVE PathLength(_, _)
PathLength(g, p) ==
    IF Len(p) <= 1 THEN 0
    ELSE Weight(g, p[1], p[2]) + PathLength(g, Tail(p))

RECURSIVE ReachFrom(_, _)
\* The nodes that can be reached from a node of S.
ReachFrom(g, S) ==
    LET T == S \cup {e[2] : e \in {d \in g : d[1] \in S}}
    IN IF T = S THEN S ELSE ReachFrom(g, T)

\* Whether the graph has a path from a to b.
HasPath(g, a, b) == b \in ReachFrom(g, {a})

\* nx.shortest_path_length(G, a, b, weight='length'); raises NetworkXNoPath
\* when HasPath is false.
ShortestPathLength(g, a, b) ==
    Min({PathLength(g, p) : p \in PathsFrom(g, <<a>>, b)})

\* nx.shortest_path(G, a, b, weight='length') returns one of these; which
\* of several tied paths is up to the library.
\* (Mutation: any simple path from a to b, shortest or not.)
ShortestPathsMutAny(g, a, b) == PathsFrom(g, <<a>>, b)
ShortestPaths(g, a, b) ==
    LET paths == PathsFrom(g, <<a>>, b)
        least == Min({PathLength(g, p) : p \in paths})
    IN {p \in paths : PathLength(g, p) = least}

\* G.get_edge_data(u, v): the lengths of the parallel edges by key, empty
\* (falsy) when there is no edge from u to v.
\* (Mutation: the lookup made from v to u.)
get_edge_dataMutReversed(g, u, v) == {<<e[3], e[4]>> : e \in {d \in g : d[1] = v /\ d[2] = u}}
get_edge_data(g, u, v) == {<<e[3], e[4]>> : e \in {d \in g : d[1] = u /\ d[2] = v}}

\* int(x) of a non-negative length x: truncation to whole metres.
IntTrunc(x) == x \div Scale

\* ------------------------------------------------ the routing solver
\* RoutingIndexManager(n, 1, 0): indices 0..n-1 are the nodes, index 0 is
\* the start of the one vehicle and index n is its end, at the depot 0.
Size(m) == Cardinality(DOMAIN m)
Start(n) == 0
End(n) == n
IsEnd(n, index) == index = End(n)
IndexToNode(n, index) == IF index = End(n) THEN 0 ELSE index

\* The transit callback: the arc cost the solver reads.
callback(m, from_index, to_index) ==
    m[IndexToNode(Size(m), from_index)][IndexToNode(Size(m), to_index)]

RECURSIVE RouteCost(_, _)
\* Cost of the route (a sequence of indices from the start) closed at the end.
RouteCost(m, route) ==
    IF Len(route) = 1 THEN callback(m, route[1], End(Size(m)))
    ELSE callback(m, route[1], route[2]) + RouteCost(m, Tail(route))

RECURSIVE PathCheapestArc(_, _, _)
\* FirstSolutionStrategy.PATH_CHEAPEST_ARC: from the start, extend the route
\* by the cheapest arc from its last node to a node not yet on it.
PathCheapestArc(m, route, unvisited) ==
    IF unvisited = {} THEN route
    ELSE LET c == Min({callback(m, Last(route), k) : k \in unvisited})
             nxt == Min({k \in unvisited : callback(m, Last(route), k) = c})
         IN PathCheapestArc(m, Append(route, nxt), unvisited \ {nxt})

\* The routes one exchange of two visits away.
Exchanges(route) ==
    { [k \in 1..Len(route) |->
          IF k = a THEN route[b] ELSE IF k = b THEN route[a] ELSE route[k]] :
      <<a, b>> \in {ab \in (2..Len(route)) \X (2..Len(route)) : ab[1] < ab[2]} }

RECURSIVE LocalSearch(_, _)
\* Greedy descent: move to the cheapest improving neighbour until none is.
LocalSearch(m, route) ==
    LET better == {r \in Exchanges(route) : RouteCost(m, r) < RouteCost(m, route)}
    IN IF better = {} THEN route
       ELSE LocalSearch(m, CHOOSE r \in better :
                               \A q \in better : RouteCost(m, r) <= RouteCost(m, q))

\* The value of NextVar at every index of the route found.
NextVarOf(n, route) ==
    [index \in 0..n-1 |->
        LET k == CHOOSE q \in 1..Len(route) : route[q] = index
        IN IF k = Len(route) THEN End(n) ELSE route[k + 1]]

\* routing.SolveWithParameters(search_parameters) on the matrix m.
SolveWithParameters(m) ==
    NextVarOf(Size(m),
              LocalSearch(m, PathCheapestArc(m, <<Start(Size(m))>>, 1..Size(m)-1)))

\* ---------------------------------------------------------------- state
VARIABLES
    G,               \* the road graph (the snapshot)
    nos,             \* nos[i]: the graph node of waypoint i
    pc,              \* position of the script
    i, j,            \* the loop indices of the matrix loop
    matriz,          \* the distance matrix
    queries,         \* cells (i, j) for which shortest_path_length was called
    solution,        \* the solver's assignment (NextVar), or None
    index,           \* resolver_tsp's cursor
    rota,            \* resolver_tsp's list under construction
    rota_otimizada,  \* the value resolver_tsp returned, once it returned
    returned,        \* resolver_tsp has returned
    out,             \* what was printed, in order
    err,             \* the exception that ended the script, or "none"
    leg,             \* the loop index of the assembly loop
    legs,            \* the paths shortest_path returned, in order
    rota_final,      \* the assembled node sequence
    distancia_total_metros,  \* the recomputed total, in length units
    skipped,         \* node pairs the distance loop's guard skipped
    run,             \* which run of the pipeline this is
    prev             \* the results of the run before, or None

env == <<G, nos>>
matrixVars == <<i, j, matriz, queries>>
solverVars == <<solution, index, rota, rota_otimizada, returned>>
routeVars == <<leg, legs, rota_final, distancia_total_metros, skipped>>
vars == <<env, pc, matrixVars, solverVars, routeVars, out, err, run, prev>>

N == Cardinality(DOMAIN nos)

\* Line 28: matriz = [[0]*n for _ in range(n)]
ZeroMatrix(n) == [a \in 0..n-1 |-> [b \in 0..n-1 |-> 0]]

\* The state of a run before its first statement.
Fresh ==
    /\ pc = "matrix"
    /\ i = 0 /\ j = 0
    /\ matriz = ZeroMatrix(N)
    /\ queries = {}
    /\ solution = None /\ index = 0 /\ rota = <<>>
    /\ rota_otimizada = None /\ returned = FALSE
    /\ out = <<>> /\ err = "none"
    /\ leg = 0 /\ legs = <<>> /\ rota_final = <<>>
    /\ distancia_total_metros = 0 /\ skipped = 0

Init ==
    /\ G \in Graphs
    /\ nos \in UNION {[0..n-1 -> Nodes] : n \in 1..MaxN}
    /\ run = 1 /\ prev = None
    /\ Fresh

\* ------------------------------------------------- lines 27-32: matriz
\* The loop's next position after cell (i, j).
Advance ==
    IF j + 1 < N THEN i' = i /\ j' = j + 1 /\ pc' = pc
    ELSE /\ i' = i + 1 /\ j' = 0
         /\ pc' = IF i + 1 < N THEN pc ELSE "solve"

\* (Mutation: the distance from nos[i] to nos[j] written to cell (j, i).)
MatrixCellMutTransposed ==
    /\ pc = "matrix"
    /\ i = j \/ HasPath(G, nos[i], nos[j])
    /\ IF i # j
       THEN /\ queries' = queries \cup {<<i, j>>}
            /\ matriz' = [matriz EXCEPT ![j][i] =
                              IntTrunc(ShortestPathLength(G, nos[i], nos[j]))]
       ELSE UNCHANGED <<queries, matriz>>
    /\ Advance
    /\ UNCHANGED <<env, solverVars, routeVars, out, err, run, prev>>

\* One iteration of the inner loop on a cell whose distance exists.
MatrixCell ==
    /\ pc = "matrix"
    /\ i = j \/ HasPath(G, nos[i], nos[j])
    /\ IF i # j
       THEN /\ queries' = queries \cup {<<i, j>>}
            /\ matriz' = [matriz EXCEPT ![i][j] =
                              IntTrunc(ShortestPathLength(G, nos[i], nos[j]))]
       ELSE UNCHANGED <<queries, matriz>>
    /\ Advance
    /\ UNCHANGED <<env, solverVars, routeVars, out, err, run, prev>>

\* (Mutation: the exception swallowed, the cell left 0, the loop goes on.)
MatrixNoPathMutSkip ==
    /\ pc = "matrix"
    /\ i # j /\ ~HasPath(G, nos[i], nos[j])
    /\ queries' = queries \cup {<<i, j>>}
    /\ Advance
    /\ UNCHANGED <<env, matriz, solverVars, routeVars, out, err, run, prev>>

\* shortest_path_length raises NetworkXNoPath: the script ends.
MatrixNoPath ==
    /\ pc = "matrix"
    /\ i # j /\ ~HasPath(G, nos[i], nos[j])
    /\ queries' = queries \cup {<<i, j>>}
    /\ err' = "NetworkXNoPath"
    /\ pc' = "error"
    /\ UNCHANGED <<env, i, j, matriz, solverVars, routeVars, out, run, prev>>

\* ------------------------------------------ lines 35-62: resolver_tsp
\* Lines 36-55 and 61-62: build the model, solve; on a solution set the
\* cursor to the start, else return None.  Whether the search ends with a
\* solution is the library's; the search is deterministic, so a second run,
\* which follows a run that had a solution, has one too.
Solve ==
    /\ pc = "solve"
    /\ \E found \in (IF prev = None THEN BOOLEAN ELSE {TRUE}) :
          IF found
          THEN /\ solution' = Some(SolveWithParameters(matriz))
               /\ index' = Start(N)
               /\ rota' = <<>>
               /\ pc' = "readout"
               /\ UNCHANGED <<rota_otimizada, returned>>
          ELSE /\ solution' = None
               /\ rota_otimizada' = None
               /\ returned' = TRUE
               /\ pc' = "report"
               /\ UNCHANGED <<index, rota>>
    /\ UNCHANGED <<env, matrixVars, routeVars, out, err, run, prev>>

\* Lines 56-58: one iteration of the while loop.
ReadoutStep ==
    /\ pc = "readout"
    /\ ~IsEnd(N, index)
    /\ rota' = Append(rota, IndexToNode(N, index))
    /\ index' = solution[1][index]
    /\ UNCHANGED <<env, pc, matrixVars, solution, rota_otimizada, returned,
                   routeVars, out, err, run, prev>>

\* (Mutation: the tour closed with its last entry instead of its first.)
ReadoutReturnMutCloseLast ==
    /\ pc = "readout"
    /\ IsEnd(N, index)
    /\ rota' = Append(rota, Last(rota))
    /\ rota_otimizada' = Some(rota')
    /\ returned' = TRUE
    /\ pc' = "report"
    /\ UNCHANGED <<env, matrixVars, solution, index, routeVars, out, err, run, prev>>

\* (Mutation: the tour returned without closing it.)
ReadoutReturnMutNoClose ==
    /\ pc = "readout"
    /\ IsEnd(N, index)
    /\ rota' = rota
    /\ rota_otimizada' = Some(rota')
    /\ returned' = TRUE
    /\ pc' = "report"
    /\ UNCHANGED <<env, matrixVars, solution, index, routeVars, out, err, run, prev>>

\* Lines 59-60: close the tour and return it.
ReadoutReturn ==
    /\ pc = "readout"
    /\ IsEnd(N, index)
    /\ rota' = Append(rota, rota[1])
    /\ rota_otimizada' = Some(rota')
    /\ returned' = TRUE
    /\ pc' = "report"
    /\ UNCHANGED <<env, matrixVars, solution, index, routeVars, out, err, run, prev>>

\* ------------------------------------------- lines 65-78: the report
\* Line 68 iterates rota_otimizada before line 70 tests it: on None it
\* raises TypeError and lines 70-78 are not reached.
Report ==
    /\ pc = "report"
    /\ IF rota_otimizada = None
       THEN /\ err' = "TypeError"
            /\ pc' = "error"
            /\ UNCHANGED out
       ELSE /\ out' = out \o <<"ROTA OTIMIZADA", "GEOCODIFICACAO">>
            /\ pc' = "assemble"
            /\ UNCHANGED err
    /\ UNCHANGED <<env, matrixVars, solverVars, routeVars, run, prev>>

\* ------------------------------------------ lines 81-88: rota_final
\* Line 82: rota_nos = [nos[i] for i in rota_otimizada]
rota_nos == [k \in 1..Len(rota_otimizada[1]) |-> nos[rota_otimizada[1][k]]]

\* (Mutation: every leg appended whole.)
StitchMutNoSeam(final, path) == final \o path

\* Lines 86-88: the seam rule.
Stitch(final, path) ==
    final \o (IF final # <<>> /\ path[1] = Last(final) THEN Tail(path) ELSE path)

\* One iteration of the loop of line 84.
AssembleLeg ==
    /\ pc = "assemble"
    /\ leg < Len(rota_nos) - 1
    /\ IF ShortestPaths(G, rota_nos[leg + 1], rota_nos[leg + 2]) = {}
       THEN /\ err' = "NetworkXNoPath"
            /\ pc' = "error"
            /\ UNCHANGED <<leg, legs, rota_final>>
       ELSE \E path \in ShortestPaths(G, rota_nos[leg + 1], rota_nos[leg + 2]) :
                /\ legs' = Append(legs, path)
                /\ rota_final' = Stitch(rota_final, path)
                /\ leg' = leg + 1
                /\ UNCHANGED <<pc, err>>
    /\ UNCHANGED <<env, matrixVars, solverVars, distancia_total_metros, skipped,
                   out, run, prev>>

\* ---------------------------------- lines 90-98: the total distance
\* (Mutation: the greatest length among the parallel edges.)
menorMutMax(dados_aresta) == Max({d[2] : d \in dados_aresta})

\* Line 95: the least 'length' among the parallel edges.
menor(dados_aresta) == Min({d[2] : d \in dados_aresta})

RECURSIVE SumEdges(_, _, _)
\* Lines 91-96 from position k of the sequence: the sum, and how many
\* pairs the guard of line 94 skipped.
SumEdges(g, final, k) ==
    IF k >= Len(final) THEN [total |-> 0, skipped |-> 0]
    ELSE LET rest == SumEdges(g, final, k + 1)
             dados_aresta == get_edge_data(g, final[k], final[k + 1])
         IN IF dados_aresta # {}
            THEN [total |-> menor(dados_aresta) + rest.total, skipped |-> rest.skipped]
            ELSE [total |-> rest.total, skipped |-> rest.skipped + 1]

\* Lines 90-98, after the last leg: the loop and the print.
Distance ==
    /\ pc = "assemble"
    /\ leg = Len(rota_nos) - 1
    /\ LET sum == SumEdges(G, rota_final, 1)
       IN /\ distancia_total_metros' = sum.total
          /\ skipped' = sum.skipped
    /\ out' = Append(out, "Distancia total percorrida")
    /\ pc' = "done"
    /\ UNCHANGED <<env, matrixVars, solverVars, leg, legs, rota_final, err, run, prev>>

\* --------------------------------------------------- the second run
\* The script is run a second time on the same graph and waypoints.
Rerun ==
    /\ pc = "done"
    /\ prev = None
    /\ run' = run + 1
    /\ prev' = Some([tour |-> rota_otimizada[1],
                     total |-> distancia_total_metros,
                     legs |-> legs])
    /\ pc' = "matrix"
    /\ i' = 0 /\ j' = 0
    /\ matriz' = ZeroMatrix(N)
    /\ queries' = {}
    /\ solution' = None /\ index' = 0 /\ rota' = <<>>
    /\ rota_otimizada' = None /\ returned' = FALSE
    /\ out' = <<>> /\ err' = "none"
    /\ leg' = 0 /\ legs' = <<>> /\ rota_final' = <<>>
    /\ distancia_total_metros' = 0 /\ skipped' = 0
    /\ UNCHANGED env

Next ==
    \/ MatrixCell
    \/ MatrixNoPath
    \/ Solve
    \/ ReadoutStep
    \/ ReadoutReturn
    \/ Report
    \/ AssembleLeg
    \/ Distance
    \/ Rerun

Spec == Init /\ [][Next]_vars

\* ------------------------------------------------------------ properties
Tour == rota_otimizada[1]
HasTour == returned /\ rota_otimizada # None
Finished == pc = "done"

RECURSIVE SumSeq(_)
SumSeq(s) == IF s = <<>> THEN 0 ELSE Head(s) + SumSeq(Tail(s))

\* The matrix-based cost of a tour, in metres.
TourCost(m, t) == SumSeq([k \in 1..Len(t)-1 |-> m[t[k]][t[k + 1]]])

\* C1: for N >= 2, the tour resolver_tsp returns has N+1 entries, starts and
\* ends at index 0, and every other index occurs exactly once, strictly
\* between the first and the last entry.
C1_TourIsPermutationCycle ==
    (HasTour /\ N >= 2) =>
        /\ Len(Tour) = N + 1
        /\ Tour[1] = 0 /\ Tour[N + 1] = 0
        /\ \A v \in 1..N-1 : Cardinality({k \in 2..N : Tour[k] = v}) = 1
        /\ \A k \in 2..N : Tour[k] # 0

\* A returned tour over three waypoints that is not in index order.
C1_Witness == HasTour /\ N = 3 /\ Tour = <<0, 2, 1, 0>>

\* C2: for N >= 2, the recomputed total is never below the matrix cost of
\* the tour and exceeds it by less than one metre per leg; with edge
\* lengths that are whole metres the two are equal.
IntegerLengths(g) == \A e \in g : e[4] % Scale = 0
C2_TotalMatchesMatrixCost ==
    (Finished /\ N >= 2) =>
        /\ distancia_total_metros >= Scale * TourCost(matriz, Tour)
        /\ distancia_total_metros < Scale * (TourCost(matriz, Tour) + Len(legs))
        /\ IntegerLengths(G) => distancia_total_metros = Scale * TourCost(matriz, Tour)

\* A finished run whose total exceeds the matrix cost by truncated fractions.
C2_Witness ==
    Finished /\ N = 3 /\ distancia_total_metros > Scale * TourCost(matriz, Tour)

RECURSIVE JoinOnce(_)
\* The legs joined with every junction node kept once.
JoinOnce(ls) ==
    IF ls = <<>> THEN <<>>
    ELSE IF Len(ls) = 1 THEN ls[1]
    ELSE JoinOnce(SubSeq(ls, 1, Len(ls) - 1)) \o Tail(Last(ls))

\* C3: the assembled sequence never holds the same node twice in a row, and
\* it is the legs joined with the junction of consecutive legs present once.
C3_SeamInvariant ==
    /\ \A k \in 1..Len(rota_final)-1 : rota_final[k] # rota_final[k + 1]
    /\ \A k \in 1..Len(legs)-1 : Last(legs[k]) = legs[k + 1][1]
    /\ rota_final = JoinOnce(legs)

\* A finished route with a single-node leg (two waypoints on one node)
\* after the first leg.
C3_Witness ==
    /\ Finished /\ N = 3
    /\ \E k \in 2..Len(legs) : Len(legs[k]) = 1
    /\ Len(rota_final) > 2

\* C4: once the matrix loop has ended, the diagonal is 0 and was never
\* queried, and every other cell (a, b) was queried and holds the truncated
\* shortest distance from nos[a] to nos[b].
MatrixBuilt == i = N
C4_MatrixCells ==
    MatrixBuilt =>
        \A a, b \in 0..N-1 :
            IF a = b
            THEN matriz[a][b] = 0 /\ <<a, b>> \notin queries
            ELSE /\ <<a, b>> \in queries
                 /\ matriz[a][b] >= 0
                 /\ matriz[a][b] = ShortestPathLength(G, nos[a], nos[b]) \div Scale

\* A completed matrix that is not symmetric.
C4_Witness ==
    MatrixBuilt /\ \E a, b \in 0..N-1 : matriz[a][b] # matriz[b][a]

\* C5: with a waypoint pair that has no path, the run never leaves the
\* matrix stage: it ends with NetworkXNoPath at the first such pair in loop
\* order, and no tour, route, total or output is produced.
Unreachable(a, b) == a # b /\ ~HasPath(G, nos[a], nos[b])
Before(a, b, c, d) == a < c \/ (a = c /\ b < d)
C5_NoPathAborts ==
    \/ /\ pc \in {"matrix", "error"}
       /\ ~returned /\ solution = None /\ rota_otimizada = None
       /\ legs = <<>> /\ rota_final = <<>> /\ out = <<>>
       /\ pc = "error" =>
             /\ err = "NetworkXNoPath"
             /\ Unreachable(i, j)
             /\ \A a, b \in 0..N-1 : Before(a, b, i, j) => ~Unreachable(a, b)
    \/ \A a, b \in 0..N-1 : ~Unreachable(a, b)

\* The script ended with NetworkXNoPath after filling earlier cells.
C5_Witness ==
    pc = "error" /\ err = "NetworkXNoPath" /\ Cardinality(queries) > 2

\* C6: when the solver finds no tour, the script reports the solver failure
\* and raises no other error.
C6_SolverFailureReported ==
    (returned /\ rota_otimizada = None) =>
        /\ err = "none"
        /\ pc \in {"done", "error"} =>
              \E k \in 1..Len(out) : out[k] = "Nao foi possivel resolver o TSP."

C9_SingleWaypoint ==
    N = 1 =>
        /\ pc = "error" => solution = None /\ returned
        /\ Finished =>
              /\ Tour = <<0, 0>>
              /\ rota_final = <<nos[0]>>
              /\ distancia_total_metros = 0

\* A finished run over one waypoint.
C9_Witness == N = 1 /\ Finished /\ Len(legs) = 1

RECURSIVE OccursInOrder(_, _, _)
\* The nodes ns occur in s from position k on, in order (waypoints on one
\* node may share a position).
OccursInOrder(ns, s, k) ==
    IF ns = <<>> THEN TRUE
    ELSE \E q \in k..Len(s) : s[q] = Head(ns) /\ OccursInOrder(Tail(ns), s, q)

\* C10: the assembled sequence of a finished run starts and ends at nos[0],
\* passes the waypoints' nodes in tour order, every step of it is an edge of
\* the graph in that direction, and the distance loop skipped no pair.
C10_ConnectedWalk ==
    Finished =>
        /\ rota_final # <<>>
        /\ rota_final[1] = nos[0] /\ Last(rota_final) = nos[0]
        /\ OccursInOrder(rota_nos, rota_final, 1)
        /\ \A k \in 1..Len(rota_final)-1 : HasEdge(G, rota_final[k], rota_final[k + 1])
        /\ skipped = 0
        /\ distancia_total_metros = PathLength(G, rota_final)

\* A finished run over three waypoints on three nodes, crossing one-way edges.
C10_Witness ==
    /\ Finished /\ N = 3 /\ Cardinality({nos[a] : a \in 0..N-1}) = 3
    /\ \E k \in 1..Len(rota_final)-1 : ~HasEdge(G, rota_final[k + 1], rota_final[k])

====
